---- MODULE Spec2Model ----
(***************************************************************************)
(* Model of examples/multigoal_ray.py: the launcher main(), the argument   *)
(* parser parse_args() and the trainable run(variant, reporter).           *)
(*                                                                         *)
(* main() is one sequential process (mainPc); run() is the body of the one *)
(* trial that tune.run_experiments starts (runPc).  Objects built by run   *)
(* live in `heap`; an object is its class, its `name` keyword and the      *)
(* object references it was given.  Literal numeric hyperparameters do not *)
(* influence control flow or object identity and are not represented.      *)
(* algorithm.train() is a generator supplied by a library: what it yields  *)
(* and when it stops is a nondeterministic choice.                         *)
(***************************************************************************)
EXTENDS Integers, Sequences, FiniteSets, TLC

VARIABLES argv, args, variants, registry, calls, local_dir_base, local_dir,
          experiments, mainPc,
          variant, heap, loc, gen, yielded, cur, reports, runPc

mainVars == <<argv, args, variants, registry, calls, local_dir_base,
              local_dir, experiments, mainPc>>
runVars  == <<variant, heap, loc, gen, yielded, cur, reports, runPc>>
vars     == <<argv, args, variants, registry, calls, local_dir_base,
              local_dir, experiments, mainPc,
              variant, heap, loc, gen, yielded, cur, reports, runPc>>

(* ------------------------------ bounds -------------------------------- *)
\* most pairs the train() generator yields before it must stop
MaxYield == 3
\* epochs a yielded pair may carry: 0..MaxEpoch
MaxEpoch == 1
\* mean returns a yielded pair may carry: 0..MaxReturn
MaxReturn == 1

(* ------------------------------ values -------------------------------- *)
\* an option that is not on the command line
Absent == "<absent>"
\* Python's None / a keyword argument that is not passed
None == "<None>"
\* a local name of run() that has not been bound
Unbound == 0

\* command lines tried: --mode is unrestricted, --policy-type is checked
ModeArgs == {Absent, "local", "Local", "cluster"}
PolicyArgs == {Absent, "gmm", "lsp", "sql"}
\* results of ray.services.get_node_ip_address()
NodeIps == {"10.0.0.1", "10.0.0.2"}
\* results of timestamp()
Timestamps == {"t1", "t2"}

PolicyChoices == {"gmm", "lsp"}
DefaultPolicyType == "gmm"
DefaultMode == "local"
TrainableName == "multigoal-runner"

EmptyDict == [k \in {} |-> None]

(* ---------------------------- parse_args ------------------------------ *)
\* argparse: a given value must be one of `choices`; the default is used
\* when the option is absent.  The result None stands for parser.error().
ParsePolicyTypeNoChoices(a) ==
    IF a = Absent THEN DefaultPolicyType ELSE a

ParsePolicyType(a) ==
    IF a = Absent THEN DefaultPolicyType
    ELSE IF a \in PolicyChoices THEN a
    ELSE None

ParseMode(a) == IF a = Absent THEN DefaultMode ELSE a

ParseArgs ==
    /\ mainPc = "parse_args"
    /\ \/ /\ ParsePolicyType(argv.policy_type) = None
          /\ mainPc' = "exit_usage"
          /\ UNCHANGED args
       \/ /\ ParsePolicyType(argv.policy_type) # None
          /\ args' = [mode |-> ParseMode(argv.mode),
                      policy_type |-> ParsePolicyType(argv.policy_type)]
          /\ mainPc' = "variants"
    /\ UNCHANGED <<argv, variants, registry, calls, local_dir_base,
                   local_dir, experiments>>
    /\ UNCHANGED runVars

(* -------------------------------- main -------------------------------- *)
BuildVariants ==
    /\ mainPc = "variants"
    /\ variants' = [policy_type |-> args.policy_type]
    /\ mainPc' = "register"
    /\ UNCHANGED <<argv, args, registry, calls, local_dir_base, local_dir,
                   experiments>>
    /\ UNCHANGED runVars

RegisteredNameTypo == "multigoal_runner"

RegisteredName == TrainableName

RegisterTrainable ==
    /\ mainPc = "register"
    /\ registry' = registry \cup {RegisteredName}
    /\ calls' = Append(calls, [fn |-> "tune.register_trainable",
                               arg |-> RegisteredName])
    /\ mainPc' = "ray_init"
    /\ UNCHANGED <<argv, args, variants, local_dir_base, local_dir,
                   experiments>>
    /\ UNCHANGED runVars

LocalDirBaseMixed(mode) == "./data/ray/results"

LocalDirBase(mode) ==
    IF mode = "local" THEN "./data/ray/results" ELSE "~/ray_results"

RedisAddress(mode, ip) ==
    IF mode = "local" THEN None ELSE ip \o ":6379"

RayInit ==
    /\ mainPc = "ray_init"
    /\ \E ip \in NodeIps :
         calls' = Append(calls, [fn |-> "ray.init",
                                 arg |-> RedisAddress(args.mode, ip)])
    /\ local_dir_base' = LocalDirBase(args.mode)
    /\ mainPc' = "local_dir"
    /\ UNCHANGED <<argv, args, variants, registry, local_dir, experiments>>
    /\ UNCHANGED runVars

FormatLocalDir(base) == base \o "/multigoal/default"

SetLocalDir ==
    /\ mainPc = "local_dir"
    /\ local_dir' = FormatLocalDir(local_dir_base)
    /\ variants' = variants @@ ("local_dir" :> FormatLocalDir(local_dir_base))
    /\ mainPc' = "run_experiments"
    /\ UNCHANGED <<argv, args, registry, calls, local_dir_base, experiments>>
    /\ UNCHANGED runVars

ExperimentSpec(ts) ==
    [name |-> "multigoal-" \o ts,
     run |-> TrainableName,
     cpu |-> 2,
     config |-> variants,
     local_dir |-> local_dir]

RunExperiments ==
    /\ mainPc = "run_experiments"
    /\ \E ts \in Timestamps :
         /\ experiments' = Append(experiments, ExperimentSpec(ts))
         /\ calls' = Append(calls, [fn |-> "tune.run_experiments",
                                    arg |-> ExperimentSpec(ts).run])
    /\ mainPc' = "trial"
    /\ UNCHANGED <<argv, args, variants, registry, local_dir_base, local_dir>>
    /\ UNCHANGED runVars

\* the framework starts the one trial of the submitted experiment: it looks
\* the experiment's 'run' up among the registered trainables and calls it
\* with the experiment's config
StartTrial ==
    /\ mainPc = "trial"
    /\ runPc = "idle"
    /\ Len(experiments) = 1
    /\ experiments[1].run \in registry
    /\ variant' = experiments[1].config
    /\ runPc' = "env"
    /\ UNCHANGED <<heap, loc, gen, yielded, cur, reports>>
    /\ UNCHANGED mainVars

\* run_experiments returns once the trial is over
MainReturn ==
    /\ mainPc = "trial"
    /\ runPc \in {"returned", "UnboundLocalError"}
    /\ mainPc' = "done"
    /\ UNCHANGED <<argv, args, variants, registry, calls, local_dir_base,
                   local_dir, experiments>>
    /\ UNCHANGED runVars

(* -------------------------------- run --------------------------------- *)
NoRefs == [k \in {} |-> Unbound]

Obj(cls, name, refs) == [cls |-> cls, name |-> name, refs |-> refs]

\* id of the object the next constructor call returns
NewId == Len(heap) + 1

BuildEnv ==
    /\ runPc = "env"
    /\ heap' = heap \o <<Obj("MultiGoalEnv", None, NoRefs),
                         Obj("normalize", None, [env |-> NewId])>>
    /\ loc' = [loc EXCEPT !.env = NewId + 1]
    /\ runPc' = "pool"
    /\ UNCHANGED <<variant, gen, yielded, cur, reports>>
    /\ UNCHANGED mainVars

BuildPool ==
    /\ runPc = "pool"
    /\ heap' = Append(heap, Obj("SimpleReplayBuffer", None,
                                [env_spec |-> loc.env]))
    /\ loc' = [loc EXCEPT !.pool = NewId]
    /\ runPc' = "sampler"
    /\ UNCHANGED <<variant, gen, yielded, cur, reports>>
    /\ UNCHANGED mainVars

BuildSampler ==
    /\ runPc = "sampler"
    /\ heap' = Append(heap, Obj("SimpleSampler", None, NoRefs))
    /\ loc' = [loc EXCEPT !.sampler = NewId]
    /\ runPc' = "qf1"
    /\ UNCHANGED <<variant, gen, yielded, cur, reports>>
    /\ UNCHANGED mainVars

BuildQf1 ==
    /\ runPc = "qf1"
    /\ heap' = Append(heap, Obj("NNQFunction", "qf1", [env_spec |-> loc.env]))
    /\ loc' = [loc EXCEPT !.qf1 = NewId]
    /\ runPc' = "qf2"
    /\ UNCHANGED <<variant, gen, yielded, cur, reports>>
    /\ UNCHANGED mainVars

BuildQf2 ==
    /\ runPc = "qf2"
    /\ heap' = Append(heap, Obj("NNQFunction", "qf2", [env_spec |-> loc.env]))
    /\ loc' = [loc EXCEPT !.qf2 = NewId]
    /\ runPc' = "vf"
    /\ UNCHANGED <<variant, gen, yielded, cur, reports>>
    /\ UNCHANGED mainVars

BuildVf ==
    /\ runPc = "vf"
    /\ heap' = Append(heap, Obj("NNVFunction", None, [env_spec |-> loc.env]))
    /\ loc' = [loc EXCEPT !.vf = NewId]
    /\ runPc' = "policy"
    /\ UNCHANGED <<variant, gen, yielded, cur, reports>>
    /\ UNCHANGED mainVars

\* if / elif without else: any other policy_type leaves `policy` unbound
BuildPolicySwapped ==
    /\ runPc = "policy"
    /\ IF variant.policy_type = "lsp"
       THEN /\ heap' = Append(heap, Obj("GMMPolicy", None,
                                  [env_spec |-> loc.env, qf |-> loc.qf1]))
            /\ loc' = [loc EXCEPT !.policy = NewId]
       ELSE IF variant.policy_type = "gmm"
       THEN /\ heap' = Append(heap, Obj("LatentSpacePolicy", None,
                                  [env_spec |-> loc.env,
                                   q_function |-> loc.qf1]))
            /\ loc' = [loc EXCEPT !.policy = NewId]
       ELSE UNCHANGED <<heap, loc>>
    /\ runPc' = "plotter"
    /\ UNCHANGED <<variant, gen, yielded, cur, reports>>
    /\ UNCHANGED mainVars

BuildPolicy ==
    /\ runPc = "policy"
    /\ IF variant.policy_type = "gmm"
       THEN /\ heap' = Append(heap, Obj("GMMPolicy", None,
                                  [env_spec |-> loc.env, qf |-> loc.qf1]))
            /\ loc' = [loc EXCEPT !.policy = NewId]
       ELSE IF variant.policy_type = "lsp"
       THEN /\ heap' = Append(heap, Obj("LatentSpacePolicy", None,
                                  [env_spec |-> loc.env,
                                   q_function |-> loc.qf1]))
            /\ loc' = [loc EXCEPT !.policy = NewId]
       ELSE UNCHANGED <<heap, loc>>
    /\ runPc' = "plotter"
    /\ UNCHANGED <<variant, gen, yielded, cur, reports>>
    /\ UNCHANGED mainVars

\* reading the unbound local `policy` raises UnboundLocalError
BuildPlotterQf2 ==
    /\ runPc = "plotter"
    /\ IF loc.policy = Unbound
       THEN /\ runPc' = "UnboundLocalError"
            /\ UNCHANGED <<heap, loc>>
       ELSE /\ heap' = Append(heap, Obj("QFPolicyPlotter", None,
                                  [qf |-> loc.qf2, policy |-> loc.policy]))
            /\ loc' = [loc EXCEPT !.plotter = NewId]
            /\ runPc' = "algorithm"
    /\ UNCHANGED <<variant, gen, yielded, cur, reports>>
    /\ UNCHANGED mainVars

BuildPlotter ==
    /\ runPc = "plotter"
    /\ IF loc.policy = Unbound
       THEN /\ runPc' = "UnboundLocalError"
            /\ UNCHANGED <<heap, loc>>
       ELSE /\ heap' = Append(heap, Obj("QFPolicyPlotter", None,
                                  [qf |-> loc.qf1, policy |-> loc.policy]))
            /\ loc' = [loc EXCEPT !.plotter = NewId]
            /\ runPc' = "algorithm"
    /\ UNCHANGED <<variant, gen, yielded, cur, reports>>
    /\ UNCHANGED mainVars

\* base_kwargs carries the sampler into SAC
BuildSAC ==
    /\ runPc = "algorithm"
    /\ heap' = Append(heap, Obj("SAC", None,
                          [sampler |-> loc.sampler,
                           env |-> loc.env,
                           policy |-> loc.policy,
                           pool |-> loc.pool,
                           qf1 |-> loc.qf1,
                           qf2 |-> loc.qf2,
                           vf |-> loc.vf,
                           plotter |-> loc.plotter]))
    /\ loc' = [loc EXCEPT !.algorithm = NewId]
    /\ runPc' = "train"
    /\ UNCHANGED <<variant, gen, yielded, cur, reports>>
    /\ UNCHANGED mainVars

\* algorithm.train() makes the generator the for statement iterates
TrainStart ==
    /\ runPc = "train"
    /\ loc.algorithm # Unbound
    /\ gen' = "suspended"
    /\ runPc' = "next"
    /\ UNCHANGED <<variant, heap, loc, yielded, cur, reports>>
    /\ UNCHANGED mainVars

\* the for statement asks for the next item and the generator yields a pair,
\* which is unpacked into epoch, mean_return
TrainYield ==
    /\ runPc = "next"
    /\ gen = "suspended"
    /\ Len(yielded) < MaxYield
    /\ \E epoch \in 0..MaxEpoch, mean_return \in 0..MaxReturn :
         /\ yielded' = Append(yielded, <<epoch, mean_return>>)
         /\ cur' = [epoch |-> epoch, mean_return |-> mean_return]
    /\ runPc' = "body"
    /\ UNCHANGED <<variant, heap, loc, gen, reports>>
    /\ UNCHANGED mainVars

\* the for statement asks for the next item and the generator is exhausted:
\* the loop ends and run returns
TrainExhausted ==
    /\ runPc = "next"
    /\ gen = "suspended"
    /\ gen' = "finished"
    /\ runPc' = "returned"
    /\ UNCHANGED <<variant, heap, loc, yielded, cur, reports>>
    /\ UNCHANGED mainVars

ReportArgsSwapped(epoch, mean_return) ==
    [timesteps_total |-> mean_return, mean_accuracy |-> epoch]

ReportArgs(epoch, mean_return) ==
    [timesteps_total |-> epoch, mean_accuracy |-> mean_return]

ReportThenReturn ==
    /\ runPc = "body"
    /\ reports' = Append(reports, ReportArgs(cur.epoch, cur.mean_return))
    /\ runPc' = "returned"
    /\ UNCHANGED <<variant, heap, loc, gen, yielded, cur>>
    /\ UNCHANGED mainVars

Report ==
    /\ runPc = "body"
    /\ reports' = Append(reports, ReportArgs(cur.epoch, cur.mean_return))
    /\ runPc' = "next"
    /\ UNCHANGED <<variant, heap, loc, gen, yielded, cur>>
    /\ UNCHANGED mainVars

(* --------------------------- specification ---------------------------- *)
Init ==
    /\ argv \in [mode : ModeArgs, policy_type : PolicyArgs]
    /\ args = [mode |-> None, policy_type |-> None]
    /\ variants = EmptyDict
    /\ registry = {}
    /\ calls = <<>>
    /\ local_dir_base = None
    /\ local_dir = None
    /\ experiments = <<>>
    /\ mainPc = "parse_args"
    /\ variant = EmptyDict
    /\ heap = <<>>
    /\ loc = [env |-> Unbound, pool |-> Unbound, sampler |-> Unbound,
              qf1 |-> Unbound, qf2 |-> Unbound, vf |-> Unbound,
              policy |-> Unbound, plotter |-> Unbound, algorithm |-> Unbound]
    /\ gen = "none"
    /\ yielded = <<>>
    /\ cur = [epoch |-> 0, mean_return |-> 0]
    /\ reports = <<>>
    /\ runPc = "idle"

Next ==
    \/ ParseArgs
    \/ BuildVariants
    \/ RegisterTrainable
    \/ RayInit
    \/ SetLocalDir
    \/ RunExperiments
    \/ StartTrial
    \/ MainReturn
    \/ BuildEnv
    \/ BuildPool
    \/ BuildSampler
    \/ BuildQf1
    \/ BuildQf2
    \/ BuildVf
    \/ BuildPolicy
    \/ BuildPlotter
    \/ BuildSAC
    \/ TrainStart
    \/ TrainYield
    \/ TrainExhausted
    \/ Report

Spec == Init /\ [][Next]_vars

(* ------------------------------ claims -------------------------------- *)
\* program points of run() after the policy statement (lines 47-70)
AfterPolicy == {"plotter", "algorithm", "train", "next", "body", "returned"}
\* program points of main() after ray.init (lines 120-125)
AfterRayInit == {"local_dir", "run_experiments", "trial", "done"}
\* program points of main() after local_dir is set (lines 127-128)
AfterLocalDir == {"run_experiments", "trial", "done"}

\* C1: the reporter is called exactly once per pair yielded by train(), in
\* the order yielded, with timesteps_total the pair's epoch and mean_accuracy
\* the pair's mean_return: the reports are the image of the yielded pairs,
\* one behind only while the loop body of the newest pair has not run yet.
C1_ReportsFollowYields ==
    /\ Len(reports) = IF runPc = "body" THEN Len(yielded) - 1 ELSE Len(yielded)
    /\ \A i \in 1..Len(reports) :
         /\ reports[i].timesteps_total = yielded[i][1]
         /\ reports[i].mean_accuracy = yielded[i][2]

C1_Witness ==
    /\ Len(reports) >= 2
    /\ reports[1] # reports[2]
    /\ reports[1].timesteps_total # reports[1].mean_accuracy

\* C2: main registers 'multigoal-runner', then calls ray.init, then submits
\* exactly one experiment, each exactly once and in that order; the submitted
\* experiment runs the registered name, and no trial starts for an
\* unregistered trainable or before ray.init.
CallOrder == <<"tune.register_trainable", "ray.init", "tune.run_experiments">>

C2_RegisterInitSubmit ==
    /\ Len(calls) <= Len(CallOrder)
    /\ \A i \in 1..Len(calls) : calls[i].fn = CallOrder[i]
    /\ Len(calls) >= 1 => calls[1].arg = "multigoal-runner"
    /\ mainPc \in {"trial", "done"} =>
         /\ Len(calls) = Len(CallOrder)
         /\ Len(experiments) = 1
    /\ mainPc \notin {"trial", "done"} => Len(experiments) = 0
    /\ \A i \in 1..Len(experiments) :
         /\ experiments[i].run = "multigoal-runner"
         /\ experiments[i].run \in registry
         /\ \E j \in 1..Len(calls) : calls[j].fn = "ray.init"
    /\ runPc # "idle" =>
         /\ "multigoal-runner" \in registry
         /\ \E j \in 1..Len(calls) : calls[j].fn = "ray.init"

C2_Witness ==
    /\ mainPc = "done"
    /\ runPc = "returned"
    /\ Len(calls) = 3
    /\ args.mode = "cluster"
    /\ args.policy_type = "lsp"

\* C3: parse_args accepts only 'gmm' or 'lsp' for --policy-type and defaults
\* to 'gmm'; so run, invoked with main's config, always sees one of the two
\* handled values and has a policy bound before the plotter and SAC are built.
C3_PolicyTypeHandled ==
    /\ mainPc = "exit_usage" <=>
         (mainPc # "parse_args" /\ argv.policy_type \notin {Absent, "gmm", "lsp"})
    /\ mainPc \notin {"parse_args", "exit_usage"} =>
         /\ args.policy_type \in {"gmm", "lsp"}
         /\ argv.policy_type = Absent => args.policy_type = "gmm"
         /\ argv.policy_type # Absent => args.policy_type = argv.policy_type
    /\ runPc # "idle" => variant.policy_type \in {"gmm", "lsp"}
    /\ runPc # "UnboundLocalError"
    /\ runPc \in AfterPolicy => loc.policy # Unbound
    /\ loc.plotter # Unbound =>
         (loc.policy # Unbound /\ loc.policy < loc.plotter)
    /\ loc.algorithm # Unbound =>
         (loc.policy # Unbound /\ loc.policy < loc.algorithm)

C3_Witness ==
    /\ argv.policy_type = Absent
    /\ loc.algorithm # Unbound
    /\ heap[loc.policy].cls = "GMMPolicy"

\* C4: run constructs exactly one policy object; 'gmm' gives a GMMPolicy and
\* never a LatentSpacePolicy, 'lsp' the reverse; that one object is the
\* policy of both the QFPolicyPlotter and SAC.
PolicyIds ==
    {i \in 1..Len(heap) : heap[i].cls \in {"GMMPolicy", "LatentSpacePolicy"}}

C4_OnePolicyOfTheChosenClass ==
    /\ Cardinality(PolicyIds) <= 1
    /\ runPc \in AfterPolicy => PolicyIds = {loc.policy}
    /\ \A i \in PolicyIds :
         /\ variant.policy_type = "gmm" => heap[i].cls = "GMMPolicy"
         /\ variant.policy_type = "lsp" => heap[i].cls = "LatentSpacePolicy"
    /\ loc.plotter # Unbound => heap[loc.plotter].refs.policy = loc.policy
    /\ loc.algorithm # Unbound => heap[loc.algorithm].refs.policy = loc.policy

C4_Witness ==
    /\ runPc = "returned"
    /\ variant.policy_type = "lsp"
    /\ heap[loc.policy].cls = "LatentSpacePolicy"
    /\ heap[loc.algorithm].refs.policy = heap[loc.plotter].refs.policy

\* C5: mode 'local' (also the default) gives ray.init() without a redis
\* address and local_dir './data/ray/results/multigoal/default'; every other
\* mode gives redis_address '<node ip>:6379' and local_dir
\* '~/ray_results/multigoal/default'; the two are never mixed.
RayInitArg == calls[2].arg

C5_ModeDecidesInitAndDir ==
    /\ mainPc \notin {"parse_args", "exit_usage"} =>
         /\ argv.mode = Absent => args.mode = "local"
         /\ argv.mode # Absent => args.mode = argv.mode
    /\ mainPc \in AfterRayInit =>
         /\ args.mode = "local" => RayInitArg = None
         /\ args.mode # "local" =>
              \E ip \in NodeIps : RayInitArg = ip \o ":6379"
    /\ mainPc \in AfterLocalDir =>
         /\ args.mode = "local" =>
              local_dir = "./data/ray/results/multigoal/default"
         /\ args.mode # "local" =>
              local_dir = "~/ray_results/multigoal/default"
         /\ variants.local_dir = local_dir
    /\ \A i \in 1..Len(experiments) :
         /\ experiments[i].local_dir = local_dir
         /\ experiments[i].config.local_dir = local_dir

C5_Witness ==
    /\ mainPc = "done"
    /\ argv.mode = "Local"
    /\ RayInitArg = "10.0.0.2:6379"
    /\ experiments[1].local_dir = "~/ray_results/multigoal/default"

\* C6: run builds environment, pool, sampler, qf1, qf2, vf, policy, plotter
\* and SAC once each in that order before train() starts and before any
\* report; qf1 is shared by policy, plotter and SAC's qf1, and qf2 is a
\* distinct object that only SAC's qf2 refers to.
ChosenPolicyClass ==
    IF "policy_type" \notin DOMAIN variant THEN None
    ELSE IF variant.policy_type = "gmm" THEN "GMMPolicy"
    ELSE IF variant.policy_type = "lsp" THEN "LatentSpacePolicy"
    ELSE None

ConstructionOrder ==
    <<"MultiGoalEnv", "normalize", "SimpleReplayBuffer", "SimpleSampler",
      "NNQFunction", "NNQFunction", "NNVFunction",
      ChosenPolicyClass, "QFPolicyPlotter", "SAC">>

PolicyQf(o) == IF o.cls = "GMMPolicy" THEN o.refs.qf ELSE o.refs.q_function

C6_GraphBuiltBeforeTraining ==
    /\ Len(heap) <= Len(ConstructionOrder)
    /\ \A i \in 1..Len(heap) : heap[i].cls = ConstructionOrder[i]
    /\ (gen # "none" \/ Len(yielded) > 0 \/ Len(reports) > 0) =>
         /\ Len(heap) = Len(ConstructionOrder)
         /\ loc.algorithm = Len(heap)
         /\ loc.env < loc.pool /\ loc.pool < loc.sampler
         /\ loc.sampler < loc.qf1 /\ loc.qf1 < loc.qf2 /\ loc.qf2 < loc.vf
         /\ loc.vf < loc.policy /\ loc.policy < loc.plotter
         /\ loc.plotter < loc.algorithm
    /\ loc.algorithm # Unbound =>
         /\ heap[loc.qf1].name = "qf1"
         /\ heap[loc.qf2].name = "qf2"
         /\ loc.qf1 # loc.qf2
         /\ PolicyQf(heap[loc.policy]) = loc.qf1
         /\ heap[loc.plotter].refs.qf = loc.qf1
         /\ heap[loc.algorithm].refs.qf1 = loc.qf1
         /\ heap[loc.algorithm].refs.qf2 = loc.qf2
    /\ \A i \in 1..Len(heap) : \A f \in DOMAIN heap[i].refs :
         (loc.qf2 # Unbound /\ heap[i].refs[f] = loc.qf2) =>
             (heap[i].cls = "SAC" /\ f = "qf2")

C6_Witness ==
    /\ Len(reports) >= 1
    /\ Len(heap) = 10
    /\ heap[loc.algorithm].cls = "SAC"
    /\ heap[loc.plotter].refs.qf = heap[loc.algorithm].refs.qf1

\* C7: run returns exactly when the sequence yielded by train() is
\* exhausted, and then after exactly as many reporter calls as pairs were
\* yielded; it never leaves the loop while the generator can still yield.
C7_ReturnsWhenExhausted ==
    /\ (runPc = "returned") <=> (gen = "finished")
    /\ runPc = "returned" => Len(reports) = Len(yielded)

C7_Witness ==
    /\ runPc = "returned"
    /\ gen = "finished"
    /\ Len(yielded) = 2
    /\ Len(reports) = 2

====
